---- MODULE Spec2Model ----
(***************************************************************************)
(* Model of timer_app.py: a Streamlit countdown timer that keeps its       *)
(* lifecycle state in st.session_state and appends lifecycle events to     *)
(* log.csv by reading the whole file, concatenating one row and rewriting  *)
(* the whole file.                                                         *)
(*                                                                         *)
(* Time is the wall clock read by datetime.now(), in whole seconds.  Every *)
(* script run executes the file top to bottom; st.rerun() and a widget     *)
(* event start a new run.  A widget event interrupts a running script at   *)
(* its next Streamlit call (timer_placeholder.metric), nowhere else.       *)
(***************************************************************************)
EXTENDS Integers, Sequences, FiniteSets, Bags, TLC

\* ------------------------------------------------------------------ bounds
\* Number of uuid4 values the model can hand out (sessions ever started).
MaxSessions == 2
\* The wall clock stops advancing here.
MaxClock == 120
\* Number of log writes or reads the environment lets fail.
MaxFaults == 1

\* ------------------------------------------------------- program constants
\* timedelta(minutes=duration) in seconds, and the 60 of // 60, % 60, divmod.
SecondsPerMinute == 60
\* st.number_input(min_value=1)
MinDuration == 1
\* Python's None for the session_id / timer_*_time cells of st.session_state.
NoneId == 0
NoneTime == -1

\* --------------------------------------------------------------- data sets
SessionIds == 1..MaxSessions
\* Amounts by which the wall clock moves between two reads.
ClockSteps == {30, 60}
\* Strings that pd.read_csv, called with its defaults (keep_default_na=True),
\* turns into NaN: the empty cell, and of its na_values ("NA", "N/A", "n/a",
\* "null", "NaN", ...) the one the inputs below produce.
NaValues == {"", "NA"}
\* The NaN cell of a DataFrame.
NaN == "<NaN>"
\* Tag strings in ascending lexicographic (code point) order.
TagOrder == <<"NA", "urgent", "work">>
TagUniverse == {TagOrder[i] : i \in 1..Len(TagOrder)}
\* What the user enters into the form: duration, title, the multiselect's
\* choice among the existing tags, the "Add new tags" box as the pieces of
\* split(','), and the description.
FormInputs ==
    { [duration |-> 1, title |-> "report", selected_tags |-> {},
       new_tags_str |-> <<"work", " urgent">>, description |-> ""],
      [duration |-> 1, title |-> "NA", selected_tags |-> {},
       new_tags_str |-> <<"NA", " ">>, description |-> "notes"],
      [duration |-> 2, title |-> "report", selected_tags |-> {"work"},
       new_tags_str |-> <<"">>, description |-> "notes"] }

\* ----------------------------------------------------------------- helpers
Range(s) == {s[i] : i \in 1..Len(s)}

IsPrefix(s, t) == /\ Len(s) <= Len(t)
                  /\ \A i \in 1..Len(s) : s[i] = t[i]

\* str.strip() on the pieces above.
Strip(s) == CASE s = " urgent" -> "urgent"
              [] s = " "       -> ""
              [] OTHER         -> s

\* sorted(list(S)) for a set of tag strings.
SortTags(S) == SelectSeq(TagOrder, LAMBDA t : t \in S)

\* ", ".join(tags)
RECURSIVE JoinTags(_)
JoinTags(tags) ==
    IF tags = <<>> THEN ""
    ELSE IF Len(tags) = 1 THEN tags[1]
    ELSE tags[1] \o ", " \o JoinTags(Tail(tags))

\* str.split(', ') on the tags cells that occur: no tag holds a comma.
SplitTags(text) ==
    CASE text = "NA, urgent, work" -> <<"NA", "urgent", "work">>
      [] text = "NA, urgent"       -> <<"NA", "urgent">>
      [] text = "NA, work"         -> <<"NA", "work">>
      [] text = "urgent, work"     -> <<"urgent", "work">>
      [] OTHER                     -> <<text>>

\* ---------------------------------------------------------------- the file
\* log.csv: absent, or a header line (present unless a write was cut short)
\* followed by one text record per row.
NoFile == [exists |-> FALSE, header |-> FALSE, rows |-> <<>>]
EmptyLog == [exists |-> TRUE, header |-> TRUE, rows |-> <<>>]

\* One parsed cell of a text column.
ReadCell(text) == IF text \in NaValues THEN NaN ELSE text
\* One written cell of a text column (na_rep = "").
WriteCell(v) == IF v = NaN THEN "" ELSE v

ParseRow(r) == [r EXCEPT !.title = ReadCell(r.title),
                         !.tags = ReadCell(r.tags),
                         !.description = ReadCell(r.description)]
FormatRow(r) == [r EXCEPT !.title = WriteCell(r.title),
                          !.tags = WriteCell(r.tags),
                          !.description = WriteCell(r.description)]

\* pd.read_csv(LOG_FILE): the DataFrame of a readable file.
read_csv(f) == [i \in 1..Len(f.rows) |-> ParseRow(f.rows[i])]
\* df.to_csv(LOG_FILE, index=False): the file a completed write leaves.
to_csv(df) == [exists |-> TRUE, header |-> TRUE,
               rows |-> [i \in 1..Len(df) |-> FormatRow(df[i])]]
\* read_csv raises on a missing file and on a file without a header line.
Readable(f) == f.exists /\ f.header

\* An initialisation that writes the empty log whether or not a file exists.
initialize_log_file_Overwrites(f) == EmptyLog
\* Lines 17-21.
initialize_log_file(f) == IF ~f.exists THEN EmptyLog ELSE f

get_log_data(f) == IF ~f.exists THEN <<>> ELSE read_csv(f)

\* The one-row DataFrame log_event builds (lines 28-37).
NewEntry(sid, now, event, title, tags, description, duration, elapsed) ==
    [session_id |-> sid, timestamp |-> now, event |-> event, title |-> title,
     tags |-> JoinTags(tags), description |-> description,
     duration_minutes |-> duration, elapsed_seconds |-> elapsed]

\* pd.concat with its two frames swapped.
Concat_Prepend(df, entry) == <<entry>> \o df
\* pd.concat([log_df, new_entry], ignore_index=True)
Concat(df, entry) == Append(df, entry)

\* ------------------------------------------------------- derived views
\* get_all_tags(df), lines 50-56.
get_all_tags(df) ==
    IF df = <<>> \/ \A i \in 1..Len(df) : df[i].tags = NaN
    THEN <<>>
    ELSE LET tags == UNION {Range(SplitTags(df[i].tags)) :
                              i \in {j \in 1..Len(df) : df[j].tags # NaN}}
         IN  SortTags(tags \ {""})

\* The seconds printed without % 60.
FormatElapsed_NoModulo(e) ==
    ToString(e \div SecondsPerMinute) \o "m " \o ToString(e) \o "s"
\* f"{int(elapsed // 60)}m {int(elapsed % 60)}s"
FormatElapsed(e) ==
    ToString(e \div SecondsPerMinute) \o "m " \o
    ToString(e % SecondsPerMinute) \o "s"

\* The keys of df.groupby('session_id'), which iterates them in ascending order.
RECURSIVE AscendingKeys(_)
AscendingKeys(S) ==
    IF S = {} THEN <<>>
    ELSE LET m == CHOOSE x \in S : \A y \in S : x <= y
         IN  <<m>> \o AscendingKeys(S \ {m})

\* The body of the loop at lines 66-82 for one group: the summaries (none or
\* one) the group appends to `sessions`.
GroupSummary(group) ==
    LET start_event == SelectSeq(group, LAMBDA r : r.event = "start")
        end_event == SelectSeq(group, LAMBDA r : r.event \in {"finish", "stop"})
        base == [Title |-> start_event[1].title,
                 Tags |-> start_event[1].tags,
                 SetDuration |-> start_event[1].duration_minutes]
    IN  IF start_event = <<>> THEN <<>>
        ELSE IF end_event # <<>>
        THEN << [Title |-> base.Title, Tags |-> base.Tags,
                 SetDuration |-> base.SetDuration,
                 ActualElapsed |-> FormatElapsed(end_event[1].elapsed_seconds),
                 Status |-> IF end_event[1].event = "finish"
                            THEN "Completed" ELSE "Stopped"] >>
        ELSE << [Title |-> base.Title, Tags |-> base.Tags,
                 SetDuration |-> base.SetDuration,
                 ActualElapsed |-> "In Progress",
                 Status |-> "Running"] >>

RECURSIVE SessionsOf(_, _)
SessionsOf(df, keys) ==
    IF keys = <<>> THEN <<>>
    ELSE GroupSummary(SelectSeq(df, LAMBDA r : r.session_id = keys[1]))
         \o SessionsOf(df, Tail(keys))

\* DataFrame.sort_index(ascending=False) of a frame with the default index.
SortIndexDescending(s) == [i \in 1..Len(s) |-> s[Len(s) + 1 - i]]

\* get_past_sessions(df), lines 59-84.
get_past_sessions(df) ==
    IF df = <<>> THEN <<>>
    ELSE SortIndexDescending(
            SessionsOf(df, AscendingKeys({df[i].session_id : i \in 1..Len(df)})))

\* ------------------------------------------------------------------- state
VARIABLES
    file,               \* log.csv
    clock,              \* datetime.now()
    app_state,          \* st.session_state.app_state
    timer_end_time,     \* st.session_state.timer_end_time
    timer_start_time,   \* st.session_state.timer_start_time
    session_id,         \* st.session_state.session_id
    session_info,       \* st.session_state.session_info
    pc,                 \* where the script is
    handler,            \* which call site called log_event
    stop_clicked,       \* a click on "Stop Timer" not yet seen by a script run
    elapsed,            \* the local `elapsed` of the timing view
    new_entry,          \* log_event's local new_entry
    log_df,             \* log_event's local log_df
    st_error,           \* st.error is on the page
    timer_placeholder,  \* what timer_placeholder shows: <<>> or <<min, sec>>
    all_tags,           \* the main view's all_tags
    past_sessions,      \* the main view's past_sessions_df
    issued,             \* the uuid4 values handed out so far
    old_file,           \* history: log.csv when the current handler began
    faults              \* history: number of failed writes so far

vars == <<file, clock, app_state, timer_end_time, timer_start_time, session_id,
          session_info, pc, handler, stop_clicked, elapsed, new_entry, log_df,
          st_error, timer_placeholder, all_tags, past_sessions, issued,
          old_file, faults>>

session_state == <<app_state, timer_end_time, timer_start_time, session_id,
                   session_info>>
log_locals == <<new_entry, log_df>>
page == <<st_error, timer_placeholder, all_tags, past_sessions>>

\* st.session_state.session_info = {}
EmptyInfo == <<>>
NoEntry == NewEntry(NoneId, 0, "", "", <<>>, "", 0, 0)

Init ==
    /\ file = NoFile
    /\ clock = 0
    /\ app_state = "unset"
    /\ timer_end_time = NoneTime
    /\ timer_start_time = NoneTime
    /\ session_id = NoneId
    /\ session_info = EmptyInfo
    /\ pc = "boot"
    /\ handler = "none"
    /\ stop_clicked = FALSE
    /\ elapsed = 0
    /\ new_entry = NoEntry
    /\ log_df = <<>>
    /\ st_error = FALSE
    /\ timer_placeholder = <<>>
    /\ all_tags = <<>>
    /\ past_sessions = <<>>
    /\ issued = {}
    /\ old_file = NoFile
    /\ faults = 0

\* ----------------------------------------------------------- script runs
\* The main view as a run that ends waiting for the form leaves it
\* (lines 103-122 and 152-158).
RenderMain(f, err) ==
    /\ all_tags' = get_all_tags(get_log_data(f))
    /\ past_sessions' = get_past_sessions(get_log_data(f))
    /\ st_error' = err
    /\ timer_placeholder' = <<>>

\* A run that reaches the main view: it waits on the form, unless
\* get_log_data raised at line 107.
MainView(f) ==
    IF Readable(f)
    THEN RenderMain(f, FALSE) /\ pc' = "main"
    ELSE UNCHANGED page /\ pc' = "error"

\* Lines 90-95: a session with no app_state gets the initial session state.
InitSessionState ==
    /\ app_state' = "main"
    /\ timer_end_time' = NoneTime
    /\ timer_start_time' = NoneTime
    /\ session_id' = NoneId
    /\ session_info' = EmptyInfo

\* The first script run of the process: lines 88-95, then the main view.
FirstRun ==
    /\ pc = "boot"
    /\ file' = initialize_log_file(file)
    /\ InitSessionState
    /\ MainView(file')
    /\ UNCHANGED <<clock, handler, stop_clicked, elapsed, log_locals, issued,
                   old_file, faults>>

\* The page is reloaded: a new browser session, whose session state is empty,
\* runs the script. The old session's script, if one runs, ends at a
\* Streamlit call.
NewSession ==
    /\ pc \in {"main", "alarm", "loop_body", "loop_exit", "error"}
    /\ file' = initialize_log_file(file)
    /\ InitSessionState
    /\ MainView(file')
    /\ handler' = "none"
    /\ stop_clicked' = FALSE
    /\ UNCHANGED <<clock, elapsed, log_locals, issued, old_file, faults>>

\* The title checked only after the session state is assigned.
SubmitEmptyTitle_SetsState ==
    /\ pc = "main"
    /\ app_state = "main"
    /\ Readable(file)
    /\ file' = initialize_log_file(file)
    /\ RenderMain(file', TRUE)
    /\ app_state' = "timing"
    /\ timer_start_time' = clock
    /\ UNCHANGED <<clock, timer_end_time, session_id, session_info, pc, handler,
                   stop_clicked, elapsed, log_locals, issued, old_file, faults>>

\* The form is submitted with an empty title: lines 124-126.
SubmitEmptyTitle ==
    /\ pc = "main"
    /\ app_state = "main"
    /\ Readable(file)
    /\ file' = initialize_log_file(file)
    /\ RenderMain(file', TRUE)
    /\ UNCHANGED <<clock, session_state, pc, handler, stop_clicked, elapsed,
                   log_locals, issued, old_file, faults>>

\* A uuid4 generator that can hand out a value twice.
uuid4_Repeats == SessionIds
\* The values str(uuid.uuid4()) can return at line 134: one never seen before.
uuid4 == SessionIds \ issued

\* Lines 129-130.
FinalTags(selected_tags, new_tags_str) ==
    LET new_tags == {Strip(new_tags_str[i]) : i \in 1..Len(new_tags_str)} \ {""}
    IN  SortTags(selected_tags \cup new_tags)

\* Line 136 with the minutes taken for seconds.
EndTime_Seconds(start, duration) == start + duration
\* Line 136: timer_start_time + timedelta(minutes=duration).
EndTime(start, duration) == start + duration * SecondsPerMinute

\* The form is submitted with a title: the run draws the form again (lines
\* 107-122), then lines 124-139, up to the call of log_event at line 142.
SubmitStart(duration, title, selected_tags, new_tags_str, description, uuid) ==
    /\ pc = "main"
    /\ app_state = "main"
    /\ Readable(file)
    /\ title # ""
    /\ duration >= MinDuration
    /\ selected_tags \subseteq Range(get_all_tags(get_log_data(file)))
    /\ uuid \in uuid4
    /\ EndTime(clock, duration) <= MaxClock
    /\ file' = initialize_log_file(file)
    /\ app_state' = "timing"
    /\ session_id' = uuid
    /\ timer_start_time' = clock
    /\ timer_end_time' = EndTime(clock, duration)
    /\ session_info' = [title |-> title,
                        tags |-> FinalTags(selected_tags, new_tags_str),
                        description |-> description,
                        duration |-> duration]
    /\ issued' = issued \cup {uuid}
    /\ handler' = "start"
    /\ pc' = "log_read"
    /\ old_file' = file
    /\ all_tags' = get_all_tags(get_log_data(file'))
    /\ st_error' = FALSE
    /\ UNCHANGED <<clock, stop_clicked, elapsed, log_locals, timer_placeholder,
                   past_sessions, faults>>

\* ---------------------------------------------------------------- log_event
\* Call sites that log stop, finish and acknowledge under the session_id of
\* the first record of the log instead of the current one.
EntryOf_FirstId(h, now) ==
    IF h = "start"
    THEN NewEntry(session_id, now, "start", session_info.title,
                  session_info.tags, session_info.description,
                  session_info.duration, 0)
    ELSE NewEntry(file.rows[1].session_id, now, h, "", <<>>, "", 0,
                  IF h = "acknowledge" THEN 0 ELSE elapsed)
\* The arguments each call site passes to log_event.
EntryOf(h, now) ==
    CASE h = "start" ->
            NewEntry(session_id, now, "start", session_info.title,
                     session_info.tags, session_info.description,
                     session_info.duration, 0)
      [] h = "stop" ->
            NewEntry(session_id, now, "stop", "", <<>>, "", 0, elapsed)
      [] h = "finish" ->
            NewEntry(session_id, now, "finish", "", <<>>, "", 0, elapsed)
      [] h = "acknowledge" ->
            NewEntry(session_id, now, "acknowledge", "", <<>>, "", 0, 0)

\* Lines 25-38: build new_entry, read the log.
LogEventRead ==
    /\ pc = "log_read"
    /\ Readable(file)
    /\ new_entry' = EntryOf(handler, clock)
    /\ log_df' = read_csv(file)
    /\ pc' = "log_write"
    /\ UNCHANGED <<file, clock, session_state, handler, stop_clicked, elapsed,
                   page, issued, old_file, faults>>

\* Lines 39-40: concatenate and rewrite the file.
LogEventWrite ==
    /\ pc = "log_write"
    /\ file' = to_csv(Concat(log_df, new_entry))
    /\ new_entry' = NoEntry
    /\ log_df' = <<>>
    /\ pc' = "returned"
    /\ UNCHANGED <<clock, session_state, handler, stop_clicked, elapsed, page,
                   issued, old_file, faults>>

\* What follows the call of log_event: app_state = 'main' after stop and
\* acknowledge (lines 171, 197), then st.rerun() (lines 150, 172, 185, 198)
\* and the next run up to where its view waits. A click on "Stop Timer" that
\* no run has seen is dropped with the button.
AppStateAfter_Keep(h) == app_state
AppStateAfter(h) == IF h \in {"stop", "acknowledge"} THEN "main" ELSE app_state

Rerun ==
    /\ pc = "returned"
    /\ app_state' = AppStateAfter(handler)
    /\ file' = initialize_log_file(file)
    /\ IF app_state' = "main"
       THEN MainView(file')
       ELSE /\ UNCHANGED <<all_tags, past_sessions, st_error>>
            /\ timer_placeholder' = <<>>
            /\ pc' = IF app_state' = "timing" THEN "loop_check" ELSE "alarm"
    /\ handler' = "none"
    /\ stop_clicked' = FALSE
    /\ elapsed' = 0
    /\ UNCHANGED <<clock, timer_end_time, timer_start_time, session_id,
                   session_info, log_locals, issued, old_file, faults>>

\* ------------------------------------------------------------- timing view
\* The user clicks "Stop Timer" while the timing view is on the page.
ClickStop ==
    /\ \/ pc \in {"loop_check", "loop_body", "sleep", "loop_exit", "timer_done"}
       \/ handler = "finish" /\ pc \in {"log_read", "log_write", "returned"}
    /\ ~stop_clicked
    /\ stop_clicked' = TRUE
    /\ UNCHANGED <<file, clock, session_state, pc, handler, elapsed, log_locals,
                   page, issued, old_file, faults>>

\* A script run interrupted by the click at a Streamlit call is replaced by a
\* run in which st.button returns True: lines 161-168.
StopSeen ==
    /\ stop_clicked' = FALSE
    /\ timer_placeholder' = <<>>
    /\ pc' = "stop_pressed"
    /\ UNCHANGED <<file, clock, session_state, handler, elapsed, log_locals,
                   st_error, all_tags, past_sessions, issued, old_file, faults>>

\* Line 174: the loop condition.
LoopCheck ==
    /\ pc = "loop_check"
    /\ pc' = IF clock < timer_end_time THEN "loop_body" ELSE "loop_exit"
    /\ UNCHANGED <<file, clock, session_state, handler, stop_clicked, elapsed,
                   log_locals, page, issued, old_file, faults>>

\* The remaining time logged as the elapsed time.
Elapsed_Remaining(now) == timer_end_time - now
\* Lines 169 and 183: (datetime.now() - timer_start_time).total_seconds()
Elapsed(now) == now - timer_start_time

\* divmod(int(remaining.total_seconds()), 60)
Remaining(now) == timer_end_time - now
Metric(remaining) == <<remaining \div SecondsPerMinute,
                       remaining % SecondsPerMinute>>

\* A tick that restarts the measurement of the elapsed time.
LoopBody_ResetsStart ==
    /\ pc = "loop_body"
    /\ ~stop_clicked
    /\ timer_placeholder' = Metric(Remaining(clock))
    /\ timer_start_time' = clock
    /\ pc' = "sleep"
    /\ UNCHANGED <<file, clock, app_state, timer_end_time, session_id,
                   session_info, handler, stop_clicked, elapsed, log_locals,
                   st_error, all_tags, past_sessions, issued, old_file, faults>>

\* Lines 175-177: one tick of the countdown.
LoopBody ==
    /\ pc = "loop_body"
    /\ IF stop_clicked
       THEN StopSeen
       ELSE /\ timer_placeholder' = Metric(Remaining(clock))
            /\ pc' = "sleep"
            /\ UNCHANGED <<file, clock, session_state, handler, stop_clicked,
                           elapsed, log_locals, st_error, all_tags,
                           past_sessions, issued, old_file, faults>>

\* The clock d seconds later; the model does not follow it past MaxClock.
Later(now, d) == IF now + d <= MaxClock THEN now + d ELSE now
\* No step of the clock from `now` stays within MaxClock.
ClockAtEnd(now) == \A d \in ClockSteps : now + d > MaxClock

\* time.sleep that returns at once and leaves the clock where it was.
Sleep_NoTime(d) ==
    /\ pc = "sleep"
    /\ clock' = clock
    /\ pc' = "loop_check"
    /\ UNCHANGED <<file, session_state, handler, stop_clicked, elapsed,
                   log_locals, page, issued, old_file, faults>>

\* Line 178: time.sleep(1) returns after the clock has moved.
Sleep(d) ==
    /\ pc = "sleep"
    /\ clock + d <= MaxClock \/ ClockAtEnd(clock)
    /\ clock' = Later(clock, d)
    /\ pc' = "loop_check"
    /\ UNCHANGED <<file, session_state, handler, stop_clicked, elapsed,
                   log_locals, page, issued, old_file, faults>>

\* Line 181: the last Streamlit call of the timing view. A click pending when
\* it is made is seen there; the run is past it once "00:00" is shown.
LoopExit ==
    /\ pc = "loop_exit"
    /\ IF stop_clicked
       THEN StopSeen
       ELSE /\ timer_placeholder' = <<0, 0>>
            /\ pc' = "timer_done"
            /\ UNCHANGED <<file, clock, session_state, handler, stop_clicked,
                           elapsed, log_locals, st_error, all_tags,
                           past_sessions, issued, old_file, faults>>

\* Lines 182-183, up to the call of log_event at line 184.
TimerDone ==
    /\ pc = "timer_done"
    /\ app_state' = "alarm"
    /\ elapsed' = Elapsed(clock)
    /\ handler' = "finish"
    /\ pc' = "log_read"
    /\ old_file' = file
    /\ UNCHANGED <<file, clock, timer_end_time, timer_start_time, session_id,
                   session_info, stop_clicked, log_locals, page, issued, faults>>

\* Line 169, up to the call of log_event at line 170.
StopButton ==
    /\ pc = "stop_pressed"
    /\ elapsed' = Elapsed(clock)
    /\ handler' = "stop"
    /\ pc' = "log_read"
    /\ old_file' = file
    /\ UNCHANGED <<file, clock, session_state, stop_clicked, log_locals, page,
                   issued, faults>>

\* -------------------------------------------------------------- alarm view
\* The user clicks "Acknowledge and Return": lines 188-195, up to the call of
\* log_event at line 196.
ClickAcknowledge ==
    /\ pc = "alarm"
    /\ app_state = "alarm"
    /\ file' = initialize_log_file(file)
    /\ handler' = "acknowledge"
    /\ pc' = "log_read"
    /\ old_file' = file
    /\ UNCHANGED <<clock, session_state, stop_clicked, elapsed, log_locals,
                   page, issued, faults>>

\* ------------------------------------------------------------------- clock
\* Only the timing view reads the clock for more than a timestamp: the clock
\* moves during time.sleep (Sleep) and between the loop condition at line 174
\* and the next read of the clock at line 175 or 183.
Advance(d) ==
    /\ pc \in {"loop_body", "loop_exit"}
    /\ clock + d <= MaxClock
    /\ clock' = clock + d
    /\ UNCHANGED <<file, session_state, pc, handler, stop_clicked, elapsed,
                   log_locals, page, issued, old_file, faults>>

\* ------------------------------------------------------------ specification
Next ==
    \/ FirstRun
    \/ NewSession
    \/ SubmitEmptyTitle
    \/ \E inp \in FormInputs, uuid \in SessionIds :
            SubmitStart(inp.duration, inp.title, inp.selected_tags,
                        inp.new_tags_str, inp.description, uuid)
    \/ LogEventRead
    \/ LogEventWrite
    \/ Rerun
    \/ ClickStop
    \/ LoopCheck
    \/ LoopBody
    \/ \E d \in ClockSteps : Sleep(d)
    \/ LoopExit
    \/ TimerDone
    \/ StopButton
    \/ ClickAcknowledge
    \/ \E d \in ClockSteps : Advance(d)

Spec == Init /\ [][Next]_vars

\* ------------------------------------------------------------ failed appends
\* What a to_csv that raises can leave on disk: the file as it was (open
\* refused), the file truncated by open(..., 'w'), or the header and the
\* first k records of what was being written.
WriteOutcomes(f, df) ==
    {f, [exists |-> TRUE, header |-> FALSE, rows |-> <<>>]}
    \cup {[exists |-> TRUE, header |-> TRUE, rows |-> SubSeq(to_csv(df).rows, 1, k)] :
            k \in 0..(Len(df) - 1)}

\* An exception ends the script run; st.session_state keeps what was assigned
\* before it, and the page keeps the widgets drawn before it.
Raise ==
    /\ pc' = "error"
    /\ new_entry' = NoEntry
    /\ log_df' = <<>>
    /\ UNCHANGED <<clock, session_state, handler, stop_clicked, elapsed, page,
                   issued, old_file>>

\* Line 38 raises: the file cannot be read now.
ReadFails ==
    /\ pc = "log_read"
    /\ Readable(file)
    /\ faults < MaxFaults
    /\ faults' = faults + 1
    /\ UNCHANGED file
    /\ Raise

\* Line 38 raises because an earlier write left no header line.
ReadRaises ==
    /\ pc = "log_read"
    /\ ~Readable(file)
    /\ UNCHANGED <<file, faults>>
    /\ Raise

\* Line 40 raises.
WriteFails ==
    /\ pc = "log_write"
    /\ faults < MaxFaults
    /\ faults' = faults + 1
    /\ file' \in WriteOutcomes(file, Concat(log_df, new_entry))
    /\ Raise

\* The user acts on the page an exception left: the script runs again with
\* the session state as it is. The widget used is the one on that page, so
\* after a failed stop the run is the one in which st.button returns True.
RerunAfterError ==
    /\ pc = "error"
    /\ file' = initialize_log_file(file)
    /\ IF app_state = "main"
       THEN MainView(file')
       ELSE /\ UNCHANGED <<all_tags, past_sessions, st_error>>
            /\ timer_placeholder' = <<>>
            /\ pc' = IF app_state = "alarm" THEN "alarm"
                     ELSE IF handler = "stop" THEN "stop_pressed"
                     ELSE "loop_check"
    /\ handler' = "none"
    /\ stop_clicked' = FALSE
    /\ elapsed' = 0
    /\ UNCHANGED <<clock, session_state, log_locals, issued, old_file, faults>>

FaultNext ==
    \/ ReadFails
    \/ ReadRaises
    \/ WriteFails
    \/ RerunAfterError

SpecFault == Init /\ [][Next \/ FaultNext]_vars

\* ------------------------------------------------------------------ claims
\* The event kinds of one session's records, in append order.
SessionEvents(rows, sid) ==
    LET own == SelectSeq(rows, LAMBDA r : r.session_id = sid)
    IN  [i \in 1..Len(own) |-> own[i].event]

LoggedIds(rows) == {rows[i].session_id : i \in 1..Len(rows)}

\* The non-empty prefixes of  start (stop | finish acknowledge?)?
LifecyclePrefixes ==
    { <<"start">>, <<"start", "stop">>, <<"start", "finish">>,
      <<"start", "finish", "acknowledge">> }

\* C1: in every reachable state, the events of every session_id in the log,
\* in append order, form a prefix of start (stop | finish acknowledge?)?:
\* one start, first; at most one of stop and finish; acknowledge only after
\* finish and at most once.
C1_SessionLifecycle ==
    \A sid \in LoggedIds(file.rows) :
        SessionEvents(file.rows, sid) \in LifecyclePrefixes

\* A log holding an acknowledged session and a stopped one.
C1_Witness ==
    \E a, b \in LoggedIds(file.rows) :
        /\ SessionEvents(file.rows, a) = <<"start", "finish", "acknowledge">>
        /\ SessionEvents(file.rows, b) = <<"start", "stop">>


\* C2: the log is append-only: across every step the records in the log
\* before the step are a prefix of the records after it, field values
\* included.
C2_AppendOnly == [][IsPrefix(file.rows, file'.rows)]_vars

\* The last record of the log.
LastRow == file.rows[Len(file.rows)]

\* log_event has returned to the call site h: the append of the current
\* handler is done and the line after the call has not run yet.
Appended(h) == pc = "returned" /\ handler = h

\* The log holds one record more than when the current handler began.
OneMore == Len(file.rows) = Len(old_file.rows) + 1

\* C3: a start submitted from the main view with a title and a duration of at
\* least one minute appends exactly one event, a start event carrying the new
\* session_id, the title, tags, description and duration, and leaves the
\* state timing with timer_end_time = timer_start_time + duration minutes.
C3_StartAppendsOneStart ==
    Appended("start") =>
        /\ OneMore
        /\ session_id \notin LoggedIds(old_file.rows)
        /\ LastRow.session_id = session_id
        /\ LastRow.event = "start"
        /\ LastRow.title = session_info.title
        /\ IF session_info.tags = <<>>
           THEN LastRow.tags = ""
           ELSE SplitTags(LastRow.tags) = session_info.tags
        /\ LastRow.description = session_info.description
        /\ LastRow.duration_minutes = session_info.duration
        /\ app_state = "timing"
        /\ timer_end_time =
              timer_start_time + session_info.duration * SecondsPerMinute

\* A second session has just been started, with tags, over a log that holds
\* the first.
C3_Witness ==
    /\ Appended("start")
    /\ old_file.rows # <<>>
    /\ session_info.tags # <<>>

\* C4: a start submitted with an empty title appends nothing and leaves
\* app_state, session_id, timer_start_time, timer_end_time and session_info
\* as they were, so the state stays main. (st_error becomes true by that
\* submission only.)
C4_EmptyTitleChangesNothing ==
    [][st_error' => (/\ file' = file
                     /\ session_state' = session_state
                     /\ app_state' = "main")]_vars

\* The error is on the page, over a log that holds records.
C4_Witness == st_error /\ file.rows # <<>>

\* C5: a stop in the timing state appends exactly one stop event for the
\* current session_id whose elapsed_seconds is the time of the stop minus the
\* start time taken at start, and the state becomes main.
C5_StopAtReturn ==
    Appended("stop") =>
        /\ OneMore
        /\ LastRow.event = "stop"
        /\ LastRow.session_id = session_id
        /\ LastRow.elapsed_seconds = clock - timer_start_time
        /\ \E i \in 1..Len(file.rows) :
              /\ file.rows[i].event = "start"
              /\ file.rows[i].session_id = session_id
              /\ file.rows[i].timestamp = timer_start_time

C5_StopAppendsOneStop ==
    /\ []C5_StopAtReturn
    /\ [][Appended("stop")
            => (app_state' = "main" /\ pc' = "main" /\ file' = file)]_vars

\* A stop has been logged some time after a start that was not at time 0.
C5_Witness ==
    /\ Appended("stop")
    /\ timer_start_time > 0
    /\ clock > timer_start_time

\* C6: when the countdown elapses, finish appends exactly one finish event
\* for the current session_id whose elapsed_seconds is the time of the finish
\* minus the start time, hence at least duration_minutes * 60; the state
\* becomes alarm and session_info stays as set at start.
C6_FinishAtReturn ==
    Appended("finish") =>
        /\ OneMore
        /\ LastRow.event = "finish"
        /\ LastRow.session_id = session_id
        /\ LastRow.elapsed_seconds = clock - timer_start_time
        /\ LastRow.elapsed_seconds >= session_info.duration * SecondsPerMinute
        /\ app_state = "alarm"

C6_FinishAppendsOneFinish ==
    /\ []C6_FinishAtReturn
    /\ [][(app_state \in {"timing", "alarm"} /\ app_state' \in {"timing", "alarm"})
            => (session_info' = session_info)]_vars

\* A finish has been logged later than the countdown's end.
C6_Witness ==
    /\ Appended("finish")
    /\ clock > timer_end_time

\* C7: an acknowledge in the alarm state appends exactly one acknowledge event
\* for the current session_id, after which that session's events are exactly
\* start, finish, acknowledge, and the state becomes main.
C7_AcknowledgeAtReturn ==
    Appended("acknowledge") =>
        /\ OneMore
        /\ LastRow.event = "acknowledge"
        /\ LastRow.session_id = session_id
        /\ SessionEvents(file.rows, session_id) =
              <<"start", "finish", "acknowledge">>

C7_AcknowledgeAppendsOne ==
    /\ []C7_AcknowledgeAtReturn
    /\ [][Appended("acknowledge")
            => (app_state' = "main" /\ pc' = "main" /\ file' = file)]_vars

\* start(duration = 1), 60 seconds, finish, acknowledge.
C7_Witness ==
    /\ Appended("acknowledge")
    /\ session_info.duration = 1
    /\ \E i \in 1..Len(file.rows) :
          /\ file.rows[i].session_id = session_id
          /\ file.rows[i].event = "finish"
          /\ file.rows[i].elapsed_seconds = SecondsPerMinute
    /\ Len(file.rows) = 3

\* C8: one iteration of the countdown loop leaves the log, session_id,
\* timer_start_time, timer_end_time and session_info as they were.
InLoop(p) == p \in {"loop_check", "loop_body", "sleep"}

C8_TickChangesNothing ==
    [][(InLoop(pc) /\ InLoop(pc'))
         => UNCHANGED <<file, session_id, timer_start_time, timer_end_time,
                        session_info>>]_vars

\* A tick has shown less than the full duration.
C8_Witness ==
    /\ pc = "sleep"
    /\ timer_placeholder = <<0, 30>>
    /\ file.rows # <<>>
    /\ timer_start_time > 0

\* C9: when an append fails, the records of the log on disk are the records
\* it held before the call: none is lost and none is partial.
C9_FailedAppendKeepsLog ==
    (pc = "error" /\ handler # "none") => file.rows = old_file.rows


\* ------------------------------------------------- summaries of any log
\* Bound on the length of the logs the summaries are computed for.
MaxEvents == 3

SummaryIds == {1, 2}
SampleTitle(sid) == IF sid = 1 THEN "report" ELSE "draft"
SampleElapsed == {5, 125}
\* Records of any kind for any session, in the shape log_event writes them.
SampleRows ==
    {NewEntry(sid, 0, "start", SampleTitle(sid), <<"work">>, "", 1, 0) :
        sid \in SummaryIds}
    \cup {NewEntry(sid, 0, k, "", <<>>, "", 0, e) :
            sid \in SummaryIds, k \in {"stop", "finish"}, e \in SampleElapsed}
    \cup {NewEntry(sid, 0, "acknowledge", "", <<>>, "", 0, 0) : sid \in SummaryIds}

SampleLogs == UNION {[1..n -> SampleRows] : n \in 0..MaxEvents}

\* The script starts over a log.csv that holds any sequence of events.
InitSummarize ==
    /\ file \in {[exists |-> TRUE, header |-> TRUE, rows |-> r] : r \in SampleLogs}
    /\ clock = 0
    /\ app_state = "unset"
    /\ timer_end_time = NoneTime
    /\ timer_start_time = NoneTime
    /\ session_id = NoneId
    /\ session_info = EmptyInfo
    /\ pc = "boot"
    /\ handler = "none"
    /\ stop_clicked = FALSE
    /\ elapsed = 0
    /\ new_entry = NoEntry
    /\ log_df = <<>>
    /\ st_error = FALSE
    /\ timer_placeholder = <<>>
    /\ all_tags = <<>>
    /\ past_sessions = <<>>
    /\ issued = {}
    /\ old_file = NoFile
    /\ faults = 0

SpecSummarize == InitSummarize /\ [][FirstRun]_vars

StartedIds(rows) ==
    {sid \in LoggedIds(rows) :
        \E i \in 1..Len(rows) : rows[i].session_id = sid /\ rows[i].event = "start"}

\* The stop and finish records of a session, in append order.
Terminals(rows, sid) ==
    SelectSeq(rows, LAMBDA r : r.session_id = sid /\ r.event \in {"stop", "finish"})

\* Whole minutes and seconds of the sampled elapsed times, written out.
Rendered(e) == IF e = 5 THEN "0m 5s" ELSE "2m 5s"

\* The summary at position i is the one the claim gives session sid.
SummaryIsOf(rows, summary, sid) ==
    LET t == Terminals(rows, sid)
    IN  /\ summary.Title = SampleTitle(sid)
        /\ IF t = <<>>
           THEN summary.Status = "Running" /\ summary.ActualElapsed = "In Progress"
           ELSE /\ summary.Status = IF t[1].event = "finish"
                                    THEN "Completed" ELSE "Stopped"
                /\ summary.ActualElapsed = Rendered(t[1].elapsed_seconds)

\* C10: for every event sequence the summaries are one per session_id with a
\* start event and none for the others; a summary is Completed when the
\* session's terminal event is finish, Stopped when it is stop, Running with
\* "In Progress" when there is none, and shows the terminal event's
\* elapsed_seconds as whole minutes and seconds.
C10_OneSummaryPerStartedSession ==
    pc = "main" =>
        LET ids == StartedIds(file.rows)
            n == Len(past_sessions)
        IN  /\ n = Cardinality(ids)
            /\ \E f \in [1..n -> ids] :
                  /\ \A i, j \in 1..n : f[i] = f[j] => i = j
                  /\ \A i \in 1..n : SummaryIsOf(file.rows, past_sessions[i], f[i])

\* A stopped session is summarised and a session without a start is not.
C10_Witness ==
    /\ pc = "main"
    /\ Cardinality(LoggedIds(file.rows)) = 2
    /\ Len(past_sessions) = 1
    /\ past_sessions[1].Status = "Stopped"
    /\ past_sessions[1].ActualElapsed = "2m 5s"

\* The position in the log of a session's first start record.
FirstStart(rows, sid) ==
    CHOOSE i \in 1..Len(rows) :
        /\ rows[i].session_id = sid /\ rows[i].event = "start"
        /\ \A j \in 1..(i - 1) :
              ~(rows[j].session_id = sid /\ rows[j].event = "start")

\* C11: the summaries are ordered most recently started session first: for
\* any two started sessions a and b of the log, if a's start record was
\* appended after b's then a's summary precedes b's, whatever their ids.
C11_MostRecentlyStartedFirst ==
    pc = "main" =>
        \A a, b \in StartedIds(file.rows) :
            FirstStart(file.rows, a) > FirstStart(file.rows, b) =>
                \E i, j \in 1..Len(past_sessions) :
                    /\ i < j
                    /\ past_sessions[i].Title = SampleTitle(a)
                    /\ past_sessions[j].Title = SampleTitle(b)

\* ------------------------------------------------------------ tags of the log
\* The non-empty tag strings in the tags cells of the start records on disk.
StartTags(rows) ==
    UNION {Range(SplitTags(rows[i].tags)) :
             i \in {j \in 1..Len(rows) : rows[j].event = "start"}} \ {""}

TagRank(t) == CHOOSE k \in 1..Len(TagOrder) : TagOrder[k] = t

\* C12: the tags the main view offers are exactly the non-empty tag strings
\* of the start records of the log, each once, in ascending order; none for an
\* empty log or a log whose records carry no tags.
C12_AllTagsOfStartEvents ==
    pc = "main" =>
        /\ Range(all_tags) = StartTags(file.rows)
        /\ \A i, j \in 1..Len(all_tags) :
              i < j => TagRank(all_tags[i]) < TagRank(all_tags[j])

\* ------------------------------------------------------------- initialisation
\* Calling initialize_log_file on the log as it is now: a second call changes
\* nothing, an existing log is left as it is, a missing one becomes empty.
InitializeOnce ==
    LET once == initialize_log_file(file)
    IN  /\ initialize_log_file(once) = once
        /\ file.exists => once = file
        /\ ~file.exists => (once.exists /\ once.header /\ once.rows = <<>>)

\* C13: initialize_log_file is idempotent and non-destructive: with no log it
\* creates an empty one; with a log, however often and wherever between the
\* other operations it is called, the records stay exactly as they were. Every
\* script run calls it, so no step other than log_event's write changes an
\* existing log.
C13_InitializeIdempotent ==
    /\ []InitializeOnce
    /\ [][pc # "log_write" =>
            IF file.exists THEN file' = file
            ELSE (file' = file \/ (file'.exists /\ file'.rows = <<>>))]_vars

\* The script has started again over a log that holds a whole session.
C13_Witness ==
    /\ pc = "main"
    /\ app_state = "main"
    /\ Len(file.rows) >= 2
    /\ issued # {}

\* C14: after an acknowledge, once the state is main again, session_info no
\* longer holds the acknowledged session's values: it is empty.
C14_AcknowledgeClearsInfo ==
    (/\ pc = "main"
     /\ file.rows # <<>>
     /\ LastRow.event = "acknowledge"
     /\ LastRow.session_id = session_id)
        => session_info = EmptyInfo

\* C15: every remaining time the countdown shows is at least zero, also when
\* the clock passes timer_end_time between the loop condition and the read of
\* the clock the remaining time is computed from.
C15_RemainingNeverNegative ==
    timer_placeholder # <<>> =>
        (timer_placeholder[1] >= 0 /\ timer_placeholder[2] >= 0)

\* -------------------------------------------------- the timer and failed appends
\* A step in which log_event raises.
AppendFails == pc \in {"log_read", "log_write"} /\ pc' = "error"

\* The script is in the countdown loop of lines 174-178 or leaving it.
CountdownRuns == pc \in {"loop_check", "loop_body", "sleep", "loop_exit"}

\* C16: an append that fails in start, stop, finish or acknowledge leaves the
\* session state (app_state, session_id, timer_start_time, timer_end_time,
\* session_info) as it was, and when that state is timing the countdown goes
\* on to the same timer_end_time: the script run is still counting down.
C16_FailedAppendKeepsTimer ==
    [][AppendFails =>
         (/\ session_state' = session_state
          /\ (app_state' = "timing" => CountdownRuns'))]_vars

\* --------------------------------------------------------------- the stop click
\* C17: a click on "Stop Timer" made while app_state is timing is seen at the
\* next Streamlit call: while it is pending no further tick is shown, the
\* state does not become alarm and no finish event is prepared for the session.
C17_StopSeenWithinOneTick ==
    [][(stop_clicked /\ app_state = "timing" /\ handler # "start") =>
         (/\ ~(pc = "loop_body" /\ pc' = "sleep")
          /\ app_state' # "alarm"
          /\ handler' # "finish")]_vars

\* ------------------------------------------------------------ one session at a time
\* Every stop, finish and acknowledge record carries the session_id of the
\* start record last appended before it.
EventsFollowLastStart ==
    \A i \in 1..Len(file.rows) :
        file.rows[i].event # "start" =>
            \E j \in 1..(i - 1) :
                /\ file.rows[j].event = "start"
                /\ file.rows[j].session_id = file.rows[i].session_id
                /\ \A k \in (j + 1)..(i - 1) : file.rows[k].event # "start"

\* C18: one session is active at a time: a start begins only in the main
\* state; while the state is timing or alarm session_id, timer_start_time and
\* timer_end_time are not replaced and the only start record appended is the
\* one of the session that made the state timing; every stop, finish and
\* acknowledge record carries the session_id of the most recent start.
C18_OneActiveSession ==
    /\ []EventsFollowLastStart
    /\ [][/\ (handler' = "start" /\ handler # "start") => app_state = "main"
          /\ (app_state \in {"timing", "alarm"} /\ app_state' \in {"timing", "alarm"})
                => UNCHANGED <<session_id, timer_start_time, timer_end_time>>
          /\ (Len(file'.rows) > Len(file.rows)
              /\ file'.rows[Len(file'.rows)].event = "start")
                => (/\ handler = "start"
                    /\ file'.rows[Len(file'.rows)].session_id = session_id
                    /\ session_id \notin LoggedIds(file.rows))]_vars

\* The second session of the log has been stopped.
C18_Witness ==
    /\ Appended("stop")
    /\ Cardinality(LoggedIds(file.rows)) = 2
    /\ file.rows[1].session_id # session_id

\* ------------------------------------------------------- the state and the log
\* C19: the session state agrees with the log at every step: in the timing
\* state the events of the current session_id are exactly start, in the alarm
\* state exactly start, finish, and in the main state the session this browser
\* session ran last has a stop or finish event after its start.
C19_StateAgreesWithLog ==
    /\ app_state = "timing" =>
          SessionEvents(file.rows, session_id) = <<"start">>
    /\ app_state = "alarm" =>
          SessionEvents(file.rows, session_id) = <<"start", "finish">>
    /\ (app_state = "main" /\ session_id # NoneId) =>
          SessionEvents(file.rows, session_id) \in
              LifecyclePrefixes \ {<<"start">>}

\* ------------------------------------------------------------------ progress
\* The steps of the script thread. At most one of them is enabled at a time:
\* each is guarded by its own value of pc.
ScriptStep ==
    \/ LogEventRead
    \/ LogEventWrite
    \/ Rerun
    \/ LoopCheck
    \/ LoopBody
    \/ \E d \in ClockSteps : Sleep(d)
    \/ LoopExit
    \/ TimerDone
    \/ StopButton

\* Number of sessions followed to their end.
MaxLiveSessions == 1

\* A start, as long as fewer sessions than that have been started.
FollowedStart ==
    /\ Cardinality(issued) < MaxLiveSessions
    /\ \E inp \in FormInputs, uuid \in SessionIds :
            SubmitStart(inp.duration, inp.title, inp.selected_tags,
                        inp.new_tags_str, inp.description, uuid)

\* Next with its script steps gathered, for as many sessions as are followed.
NextLive ==
    \/ FirstRun
    \/ NewSession
    \/ SubmitEmptyTitle
    \/ FollowedStart
    \/ ScriptStep
    \/ ClickStop
    \/ ClickAcknowledge
    \/ \E d \in ClockSteps : Advance(d)

\* The script thread keeps running: a run that can take its next step takes
\* it, time.sleep returns, and log_event's read and write complete. The user's
\* steps (submitting, clicking, reloading) and the clock's moves between two
\* statements are under no such obligation.
SpecLive == Init /\ [][NextLive]_vars /\ WF_vars(ScriptStep)

\* The log holds a record of kind k for session sid.
Logged(sid, k) ==
    \E i \in 1..Len(file.rows) :
        file.rows[i].session_id = sid /\ file.rows[i].event = k

\* The session state was discarded by a reload of the page.
Reloaded == session_id = NoneId

\* C20: every started session ends: from every timing state the program
\* reaches a state in which a stop or a finish event of the session is in the
\* log, unless the page is reloaded and the session state discarded; and once
\* the clock has reached timer_end_time in the countdown with no click on Stop
\* pending, a finish event is logged unless a click comes. (session_id changes
\* only at a reload and at the next start, which the end of the session
\* precedes.)
C20_EverySessionEnds ==
    /\ (app_state = "timing")
          ~> (\/ Logged(session_id, "stop")
              \/ Logged(session_id, "finish")
              \/ Reloaded)
    /\ (app_state = "timing" /\ CountdownRuns
        /\ clock >= timer_end_time /\ ~stop_clicked)
          ~> (Logged(session_id, "finish") \/ stop_clicked \/ Reloaded)

\* A countdown has run into its end and the finish event is in the log.
C20_Witness ==
    /\ pc = "alarm"
    /\ Logged(session_id, "finish")
    /\ clock > timer_end_time
    /\ Len(file.rows) = 2

====
